---- MODULE Spec2Model ----
(***************************************************************************)
(* State-machine model of frontend/src/App.vue (second <script setup>      *)
(* block, lines 432-912, and the buttons of its template, lines 914-1004). *)
(* Every await of the source is a suspension point: the code before it and *)
(* the code after it are separate actions, so that push events, button     *)
(* clicks and other pending continuations interleave as in the browser's   *)
(* event loop.                                                             *)
(***************************************************************************)
EXTENDS Integers, Sequences, FiniteSets, TLC

\* ------------------------------------------------------------------ bounds
\* Number of createAndDeposit invocations in one run.
MaxFlows == 2
\* Contract ids the backend hands out are 0..MaxId.
MaxId == 1
\* Longest witness stack and longest output list a step of signAndBroadcast
\* is applied to.
MaxWit == 5
\* Most inputs of the unsigned claim-all transaction, and most metadata records
\* in the backend's answer.
MaxIns == 2
MaxOuts == 2

\* ------------------------------------------------------- program constants
\* contractForm.amount as constructed (the form is left at its default).
DefaultAmount == 1000

\* --------------------------------------------------------------- JS values
\* null / undefined of JavaScript, as numbers outside every id and amount.
Null == -1
Undefined == -2
NaN == -3

Ids == 0..MaxId
Flows == 1..MaxFlows

\* JavaScript truthiness of a contract id: null, undefined and 0 are falsy.
Truthy(id) == id # Null /\ id # Undefined /\ id # 0

\* Deposit address the backend derives for a contract; '' is NoAddr.
NoAddr == -1
AddrOf(id) == id

\* Witness stacks of the first input of a pending transaction.  An element
\* is 0 for a zero-length buffer and a positive number for non-empty bytes
\* (1 a signature, 2 the leaf script, 3 the control block).
WitOpen == <<0, 1, 2, 3>>
WitFull == <<1, 1, 2, 3>>
WitShort == <<2, 3>>
Witnesses == {WitOpen, WitFull, WitShort}

\* tx_hex: '' is NoTx, otherwise the raw transaction of contract cid.
NoTx == [cid |-> Null, wit |-> << >>]
TxOf(id, w) == [cid |-> id, wit |-> w]
Txs == {TxOf(id, w) : id \in Ids, w \in Witnesses}

WaitingStatuses == {"WAITING_USER_SIG", "WAITING_USER_SIG_REFUND"}
SettleResults == {"SETTLED_WIN", "SETTLED_LOSS"}

\* Push events {type, contract_id, result | status, tx_hex}.
NoEv == [type |-> "NONE", contract_id |-> Null, result |-> "", status |-> "", tx_hex |-> NoTx]
Events ==
    {[type |-> "MATCHED", contract_id |-> id, result |-> "", status |-> "", tx_hex |-> NoTx] :
        id \in Ids}
    \cup
    {[type |-> "SETTLED", contract_id |-> id, result |-> r, status |-> "", tx_hex |-> NoTx] :
        id \in Ids, r \in SettleResults}
    \cup
    {[type |-> "ACTION_REQUIRED", contract_id |-> id, result |-> "", status |-> s,
      tx_hex |-> TxOf(id, w)] : id \in Ids, s \in WaitingStatuses, w \in Witnesses}

\* Entries of GET /contracts/user/{pubkey}: {id, amount, status, tx_hex}.  The
\* entry is contract MaxId, which a createAndDeposit of this run may or may not
\* have created, awaiting the user's signature, with its transaction or without
\* a tx_hex.
NoItem == [id |-> Null, amount |-> Undefined, status |-> "", tx_hex |-> NoTx]
HistoryItems ==
    {[id |-> MaxId, amount |-> DefaultAmount, status |-> "WAITING_USER_SIG",
      tx_hex |-> IF has THEN TxOf(MaxId, WitOpen) ELSE NoTx] : has \in BOOLEAN}
\* The lists the backend may answer with (at most one entry).
HistoryLists == {<< >>} \cup {<<c>> : c \in HistoryItems}

VARIABLES
    installed,        \* which wallet extensions the page has: window.unisat, window.okxwallet
    wallet,           \* wallet.connected, wallet.publicKey (set or ''), wallet.name
    currentProvider,  \* the stored provider handle
    currentContract,  \* id, address, status, tx_hex and the (never defined) amount
    userContracts,    \* the history list
    flow,             \* the createAndDeposit invocations: the position of each and,
                      \* while it runs, the contract id create_contract answered it
    sign,             \* the signAndBroadcast invocation in flight, with its local tx
    issued,           \* backend: contract ids create_contract has answered with
    deposited,        \* wallet: contract ids whose deposit was broadcast
    conc,             \* how createAndDeposit calls have overlapped so far:
                      \* 0: each started after the one before, its timer and match
                      \*    request included, had finished,
                      \* 1: one started while another's timer or match was pending,
                      \* 2: one started while another's body was suspended
    last,             \* the step just taken: operation, its inputs, its outcome and
                      \* how many entries it put on currentContract.logs
    claim,            \* the claimAll invocation in flight: its position, the backend's
                      \* answer, the PSBT it built and the wallet calls it made
    probe             \* SpecSignParts: the input a step of signAndBroadcast is
                      \* applied to, and its result

vars == <<installed, wallet, currentProvider, currentContract, userContracts, flow, sign,
          issued, deposited, conc, last, claim, probe>>

\* ------------------------------------------------------------------- state
NoStep == [op |-> "init", f |-> 0, hit |-> FALSE, ev |-> NoEv, rep |-> FALSE, c |-> NoItem,
           res |-> "", value |-> Undefined, sent |-> Null, n |-> 0]

Step(op, n) == [NoStep EXCEPT !.op = op, !.n = n]

\* No claimAll under way; no step of signAndBroadcast under study.
NoClaim ==
    [pc |-> "idle", res |-> "", nIns |-> 0, recs |-> << >>, psbt |-> << >>, fin |-> {},
     agent |-> "none", asked |-> 0, pushed |-> 0, n |-> 0]
NoProbe ==
    [kind |-> "none", w |-> << >>, a |-> "", outs |-> << >>, addr |-> "",
     signed |-> Null, c |-> [id |-> Null, status |-> ""],
     done |-> FALSE, res |-> "", out |-> << >>, push |-> 0,
     cc |-> [id |-> Null, status |-> ""]]

IdleFlow == [pc |-> "idle", got |-> Null]
DoneFlow == [pc |-> "done", got |-> Null]


\* The page after setup, before any handler has run.
AppInit ==
    /\ installed \in {{"unisat", "okx"}, {"okx"}, {}}
    /\ wallet = [connected |-> FALSE, publicKey |-> FALSE, name |-> ""]
    /\ currentProvider = "none"
    /\ currentContract = [id |-> Null, address |-> NoAddr, status |-> "", tx_hex |-> NoTx,
                          amount |-> Undefined]
    /\ userContracts = << >>
    /\ flow = [f \in Flows |-> IdleFlow]
    /\ sign = [pc |-> "idle", wit |-> << >>]
    /\ issued = {}
    /\ deposited = {}
    /\ conc = 0
    /\ last = NoStep

Init ==
    /\ AppInit
    /\ claim = NoClaim
    /\ probe = NoProbe

\* The four fields of currentContract the claims speak of.
CCF(c) == <<c.id, c.address, c.status, c.tx_hex>>

\* ----------------------------------------------------------- push channel
\* ws.onmessage without the comparison of contract ids.
OnMessageAnyContract(c, ev) ==
    CASE ev.type = "MATCHED" -> [cc |-> [c EXCEPT !.status = "MATCHED"], n |-> 2]
      [] ev.type = "SETTLED" -> [cc |-> [c EXCEPT !.status = ev.result], n |-> 2]
      [] OTHER -> [cc |-> [c EXCEPT !.status = ev.status, !.tx_hex = ev.tx_hex], n |-> 2]

\* ws.onmessage with a MATCHED handler that steps the status on instead of
\* setting it: a second MATCHED moves a matched contract to SETTLED_WIN.
OnMessageStepping(c, ev) ==
    IF Truthy(c.id) /\ ev.contract_id = c.id
    THEN CASE ev.type = "MATCHED" ->
                [cc |-> [c EXCEPT !.status = IF c.status = "MATCHED" THEN "SETTLED_WIN"
                                              ELSE "MATCHED"], n |-> 2]
           [] ev.type = "SETTLED" ->
                [cc |-> [c EXCEPT !.status = ev.result], n |-> 2]
           [] OTHER ->
                [cc |-> [c EXCEPT !.status = ev.status, !.tx_hex = ev.tx_hex], n |-> 2]
    ELSE [cc |-> c, n |-> 1]

\* ws.onmessage: the new currentContract and the number of log() calls.
OnMessage(c, ev) ==
    IF Truthy(c.id) /\ ev.contract_id = c.id
    THEN CASE ev.type = "MATCHED" ->
                [cc |-> [c EXCEPT !.status = "MATCHED"], n |-> 2]
           [] ev.type = "SETTLED" ->
                [cc |-> [c EXCEPT !.status = ev.result], n |-> 2]
           [] ev.type = "ACTION_REQUIRED" ->
                [cc |-> [c EXCEPT !.status = ev.status, !.tx_hex = ev.tx_hex], n |-> 2]
           [] OTHER -> [cc |-> c, n |-> 1]
    ELSE [cc |-> c, n |-> 1]

\* The event is for the contract being tracked.
Tracked(c, ev) == c.id # Null /\ ev.contract_id = c.id

\* A push event arrives.  last keeps the event when it is for the tracked
\* contract (rep: the step before delivered the very same event).
WsMessage ==
    \E ev \in Events :
        LET r == OnMessage(currentContract, ev)
            hit == Tracked(currentContract, ev) IN
        /\ currentContract' = r.cc
        /\ last' = [NoStep EXCEPT !.op = "ws", !.n = r.n, !.hit = hit,
                                  !.ev = IF hit THEN ev ELSE NoEv,
                                  !.rep = (hit /\ last.op = "ws" /\ last.ev = ev)]
        /\ UNCHANGED <<claim, probe, installed, wallet, currentProvider, userContracts, flow,
                       sign, issued, deposited, conc>>

\* ws.onerror: the error goes to console.error; currentContract.logs gets nothing.
WsError ==
    /\ last' = [Step("wsError", 0) EXCEPT !.res = "throw"]
    /\ UNCHANGED <<claim, probe, installed, wallet, currentProvider, currentContract,
                   userContracts, flow, sign, issued, deposited, conc>>

\* ------------------------------------------------------------ connectWallet
\* The provider connectWallet picks: UniSat first, then OKX.
DetectProvider(inst) ==
    IF "unisat" \in inst THEN "unisat" ELSE IF "okx" \in inst THEN "okx" ELSE "none"

ProviderName(p) ==
    IF p = "unisat" THEN "UniSat Wallet" ELSE IF p = "okx" THEN "OKX Wallet" ELSE ""

\* connectWallet, run to its end: the wallet calls it awaits touch nothing another
\* operation reads before wallet.connected is set.  switchFails: the network switch
\* throws (logged, the flow goes on); out: requestAccounts / getPublicKey answer or
\* throw; mainnet: the address starts with bc1 (a warning is logged).  The
\* fetchUserContracts() it starts on success is the action FetchUserContracts.
ConnectWallet ==
    /\ ~wallet.connected
    /\ LET p == DetectProvider(installed) IN
       IF p = "none"
       THEN /\ last' = Step("connectWallet", 0)
            /\ UNCHANGED <<wallet, currentProvider>>
       ELSE \E switchFails \in BOOLEAN, out \in {"ok", "throw"}, mainnet \in BOOLEAN :
              LET k == IF switchFails THEN 1 ELSE 0 IN
              IF out = "ok"
              THEN /\ wallet' = [connected |-> TRUE, publicKey |-> TRUE,
                                 name |-> ProviderName(p)]
                   /\ currentProvider' = p
                   /\ last' = [Step("connectWallet", k + 1 + (IF mainnet THEN 1 ELSE 0))
                                 EXCEPT !.res = "ok"]
              ELSE /\ last' = [Step("connectWallet", k + 1) EXCEPT !.res = "throw"]
                   /\ UNCHANGED <<wallet, currentProvider>>
    /\ UNCHANGED <<claim, probe, installed, currentContract, userContracts, flow, sign, issued,
                   deposited, conc>>

\* -------------------------------------------------------- fetchUserContracts
\* fetchUserContracts with the answer of GET /contracts/user/{pubkey} or its
\* failure: the call connectWallet makes on success, or the refresh button of the
\* history card (shown once the wallet is connected).  The request reads only
\* wallet.publicKey, so the call and its answer are taken as one step.
FetchUserContracts ==
    /\ wallet.connected
    /\ wallet.publicKey
    /\ \E ok \in BOOLEAN :
         /\ userContracts' \in (IF ok THEN HistoryLists ELSE {userContracts})
         /\ last' = [Step("fetchUserContracts", 1)
                       EXCEPT !.res = IF ok THEN "ok" ELSE "throw"]
    /\ UNCHANGED <<claim, probe, installed, wallet, currentProvider, currentContract, flow, sign,
                   issued, deposited, conc>>

\* --------------------------------------------------------- createAndDeposit
\* How this call overlaps the other ones (see conc).
Overlap(f) ==
    IF \E g \in Flows \ {f} : flow[g].pc \in {"awaitCreate", "awaitDeposit", "awaitCancel"}
    THEN 2
    ELSE IF \E g \in Flows \ {f} : flow[g].pc \in {"timer", "awaitMatch"} THEN 1
    ELSE 0

Max(a, b) == IF a >= b THEN a ELSE b

\* The click on "Create & Deposit" (the button is disabled until the wallet is
\* connected): log, then the create_contract request is sent.
CreateAndDeposit(f) ==
    /\ flow[f].pc = "idle"
    /\ \A g \in Flows : g < f => flow[g].pc # "idle"
    /\ wallet.connected
    /\ flow' = [flow EXCEPT ![f].pc = "awaitCreate"]
    /\ conc' = Max(conc, Overlap(f))
    /\ last' = [Step("createAndDeposit", 1) EXCEPT !.f = f]
    /\ UNCHANGED <<claim, probe, installed, wallet, currentProvider, currentContract, userContracts,
                   sign, issued, deposited>>

\* The catch block up to its await: the error is logged and, when
\* currentContract.id is truthy, a cancel_contract request carrying
\* currentContract.id is sent.  pc: where the flow goes; sent: the id the
\* request carries (Null: no request); n: log entries.
CatchBlock(c) ==
    IF Truthy(c.id)
    THEN [pc |-> "awaitCancel", sent |-> c.id, n |-> 2]
    ELSE [pc |-> "done", sent |-> Null, n |-> 1]

\* The flow record after the catch block.
AfterCatch(fl, r) == IF r.pc = "done" THEN DoneFlow ELSE [fl EXCEPT !.pc = r.pc]

\* The answer of POST /create_contract: the request throws, the backend answers
\* without success, or it answers with a new contract id; then the deposit is
\* asked of the wallet.
CreateReturn(f) ==
    /\ flow[f].pc = "awaitCreate"
    /\ \E out \in {"throw", "reject", "ok"} :
         CASE out = "throw" ->
                LET r == CatchBlock(currentContract) IN
                /\ flow' = [flow EXCEPT ![f] = AfterCatch(flow[f], r)]
                /\ last' = [Step("createReturn", r.n) EXCEPT !.f = f, !.res = out,
                                                             !.sent = r.sent]
                /\ UNCHANGED <<currentContract, issued>>
           [] out = "reject" ->
                /\ flow' = [flow EXCEPT ![f] = DoneFlow]
                /\ last' = [Step("createReturn", 1) EXCEPT !.f = f, !.res = out]
                /\ UNCHANGED <<currentContract, issued>>
           [] out = "ok" ->
                \E id \in Ids \ issued :
                    /\ currentContract' = [currentContract EXCEPT !.id = id,
                                             !.address = AddrOf(id), !.status = "CREATED"]
                    /\ issued' = issued \cup {id}
                    /\ flow' = [flow EXCEPT ![f] = [pc |-> "awaitDeposit", got |-> id]]
                    /\ last' = [Step("createReturn", 3) EXCEPT !.f = f, !.res = out]
    /\ UNCHANGED <<claim, probe, installed, wallet, currentProvider, userContracts, sign,
                   deposited, conc>>

\* The answer of currentProvider.sendBitcoin: the deposit is broadcast and the
\* match is scheduled with setTimeout, or the wallet throws and the catch block runs.
DepositReturn(f) ==
    /\ flow[f].pc = "awaitDeposit"
    /\ \E out \in {"ok", "throw"} :
         IF out = "ok"
         THEN /\ flow' = [flow EXCEPT ![f].pc = "timer"]
              /\ deposited' = deposited \cup {flow[f].got}
              /\ last' = [Step("depositReturn", 2) EXCEPT !.f = f, !.res = out]
         ELSE LET r == CatchBlock(currentContract) IN
              /\ flow' = [flow EXCEPT ![f] = AfterCatch(flow[f], r)]
              /\ last' = [Step("depositReturn", r.n) EXCEPT !.f = f, !.res = out,
                                                            !.sent = r.sent]
              /\ UNCHANGED deposited
    /\ UNCHANGED <<claim, probe, installed, wallet, currentProvider, currentContract, userContracts,
                   sign, issued, conc>>

\* The answer of POST /cancel_contract, or its failure: either way one log entry,
\* then id, address and status are cleared (tx_hex is not).
ClearContract(c) == [c EXCEPT !.id = Null, !.address = NoAddr, !.status = ""]

\* The catch block with the clearing inside the inner try, after the fetch: a
\* failed cancel_contract request skips it.
CancelOutcomeInsideTry(c, ok) ==
    [cc |-> IF ok THEN ClearContract(c) ELSE c, n |-> 1]

\* The rest of the catch block once the cancel_contract request is over: the
\* inner try logs the deletion, the inner catch logs the failure, and the
\* three assignments after them run in both cases.
CancelOutcome(c, ok) == [cc |-> ClearContract(c), n |-> 1]

CancelReturn(f) ==
    /\ flow[f].pc = "awaitCancel"
    /\ \E ok \in BOOLEAN :
         LET r == CancelOutcome(currentContract, ok) IN
         /\ currentContract' = r.cc
         /\ last' = [Step("cancelReturn", r.n) EXCEPT !.f = f,
                                                   !.res = IF ok THEN "ok" ELSE "throw"]
    /\ flow' = [flow EXCEPT ![f] = DoneFlow]
    /\ UNCHANGED <<claim, probe, installed, wallet, currentProvider, userContracts, sign,
                   issued, deposited, conc>>

\* matchContract up to its await: nothing when currentContract.id is falsy, else
\* a log entry and a match request carrying currentContract.id.
MatchRequest(c) ==
    IF Truthy(c.id) THEN [sent |-> c.id, n |-> 1] ELSE [sent |-> Null, n |-> 0]

\* The 3000 ms timer of the flow fires and calls matchContract.
TimerFire(f) ==
    /\ flow[f].pc = "timer"
    /\ LET r == MatchRequest(currentContract) IN
       /\ flow' = [flow EXCEPT ![f] = IF r.sent = Null THEN DoneFlow
                                      ELSE [flow[f] EXCEPT !.pc = "awaitMatch"]]
       /\ last' = [Step("timerFire", r.n) EXCEPT !.f = f, !.sent = r.sent]
    /\ UNCHANGED <<claim, probe, installed, wallet, currentProvider, currentContract, userContracts,
                   sign, issued, deposited, conc>>

\* The answer of POST /match, or its failure: one log entry.
MatchReturn(f) ==
    /\ flow[f].pc = "awaitMatch"
    /\ flow' = [flow EXCEPT ![f] = DoneFlow]
    /\ \E ok \in BOOLEAN :
         last' = [Step("matchReturn", 1) EXCEPT !.f = f,
                                                !.res = IF ok THEN "ok" ELSE "throw"]
    /\ UNCHANGED <<claim, probe, installed, wallet, currentProvider, currentContract, userContracts,
                   sign, issued, deposited, conc>>

\* ------------------------------------------------- requests that only log
\* A handler that sends one backend request and logs its answer or its failure,
\* taken with the answer as one step: it reads nothing after the await.  before:
\* log entries ahead of the request.
LogOnly(op, before) ==
    /\ \E ok \in BOOLEAN :
         last' = [Step(op, before + 1) EXCEPT !.res = IF ok THEN "ok" ELSE "throw"]
    /\ UNCHANGED <<claim, probe, installed, wallet, currentProvider, currentContract,
                   userContracts, flow, sign, issued, deposited, conc>>

\* fetchStats, which connectWallet starts on success (the stats it stores are
\* read by no handler).
FetchStats == wallet.connected /\ LogOnly("fetchStats", 0)

\* What the backend answers to /match, /refund, /settle_all or /contract/<id>:
\* the request fails, or a JSON body that names a status.
RequestAnswers == {"throw", "MATCHED", "REFUNDED", "SETTLED_WIN"}

\* A handler that copies the status of the backend's answer into currentContract.
RequestOutcomeStoresAnswer(c, guarded, before, ans) ==
    IF guarded /\ ~Truthy(c.id)
    THEN [cc |-> c, sent |-> Null, res |-> "noRequest", n |-> 0]
    ELSE [cc |-> IF ans = "throw" THEN c ELSE [c EXCEPT !.status = ans],
          sent |-> IF guarded THEN c.id ELSE Null,
          res |-> IF ans = "throw" THEN "throw" ELSE "ok", n |-> before + 1]

\* matchContract, refundContract, checkStatus (guarded: they return at once
\* when currentContract.id is falsy) and settleAllContracts: one request, then
\* its JSON body or its failure goes to the log and nowhere else.  before: log
\* entries ahead of the request.
RequestOutcome(c, guarded, before, ans) ==
    IF guarded /\ ~Truthy(c.id)
    THEN [cc |-> c, sent |-> Null, res |-> "noRequest", n |-> 0]
    ELSE [cc |-> c, sent |-> IF guarded THEN c.id ELSE Null,
          res |-> IF ans = "throw" THEN "throw" ELSE "ok", n |-> before + 1]

\* One call of such a handler, taken with the backend's answer as one step: the
\* handler reads nothing after the await.
Request(op, guarded, before) ==
    /\ \E ans \in RequestAnswers :
         LET r == RequestOutcome(currentContract, guarded, before, ans) IN
         /\ currentContract' = r.cc
         /\ last' = [Step(op, r.n) EXCEPT !.res = r.res, !.sent = r.sent]
    /\ UNCHANGED <<claim, probe, installed, wallet, currentProvider,
                   userContracts, flow, sign, issued, deposited, conc>>

\* The "Match" button: matchContract called by hand.
MatchContract == Request("matchContract", TRUE, 1)

\* The "Settle All" button.
SettleAllContracts == Request("settleAllContracts", FALSE, 1)

\* The "Refund" button.
RefundContract == Request("refundContract", TRUE, 1)

\* The "check status" button.
CheckStatus == Request("checkStatus", TRUE, 0)

\* ---------------------------------------------------------- signAndBroadcast
\* x * 2 of JavaScript: NaN unless x is a number.
JsTimes2(x) == IF x \in Nat THEN 2 * x ELSE NaN

\* BigInt(x) throws a RangeError for NaN.
BigIntThrows(x) == x = NaN

\* The placeholder loop with witness.length as its bound: the last two elements
\* are scanned too.
FindPlaceholderAnySlot(w) ==
    LET empty == {i \in 1..Len(w) : w[i] = 0} IN
    IF empty = {} THEN 0 ELSE CHOOSE i \in empty : \A j \in empty : i <= j

\* The loop over witness[0 .. length-3]: the first zero-length element (as a
\* 1-based position), 0 when there is none.
FindPlaceholder(w) ==
    LET empty == {i \in 1..(Len(w) - 2) : w[i] = 0} IN
    IF empty = {} THEN 0 ELSE CHOOSE i \in empty : \A j \in empty : i <= j

\* What signPsbt may answer.
WalletAnswers == {"refuse", "nosig", "sig"}

\* The signature the wallet returned, tapScriptSig[0].signature, as a witness
\* element.
UserSig == 4

\* The insertion loop without its break: every empty slot ahead of the last
\* two is filled.
InsertSignatureNoBreak(w) ==
    [i \in 1..Len(w) |-> IF i <= Len(w) - 2 /\ w[i] = 0 THEN UserSig ELSE w[i]]

\* witness[i] = userSig at the placeholder (the stack itself when there is none).
InsertSignature(w) ==
    LET i == FindPlaceholder(w) IN
    IF i = 0 THEN w ELSE [w EXCEPT ![i] = UserSig]

\* The steps after signPsbt with the check of tapScriptSig left out.
AfterSignPsbtNoSigCheck(w, a) ==
    IF a = "refuse" THEN [res |-> "agentRefuse", wit |-> w, push |-> 0]
    ELSE [res |-> "pushing", wit |-> InsertSignature(w), push |-> 1]

\* signAndBroadcast from the answer of signPsbt to its next await or its end,
\* for the witness stack w of tx.ins[0] and the wallet's answer a: the wallet
\* refused (signPsbt threw), returned a PSBT without tapScriptSig, or returned a
\* signature.  res: where it stopped; wit: the witness stack of tx afterwards;
\* push: calls of pushTx.
AfterSignPsbt(w, a) ==
    IF a = "refuse" THEN [res |-> "agentRefuse", wit |-> w, push |-> 0]
    ELSE IF a = "nosig" THEN [res |-> "noSignature", wit |-> w, push |-> 0]
    ELSE IF FindPlaceholder(w) = 0 THEN [res |-> "noPlaceholder", wit |-> w, push |-> 0]
    ELSE [res |-> "pushing", wit |-> InsertSignature(w), push |-> 1]

\* An output script of the raw transaction: 0 a script that is no address
\* (fromOutputScript throws), otherwise the script of address number k.  The
\* address of a script and the script addOutput derives from that address.
AddressOfScript(k) == k + 10
ScriptOfAddress(a) == a - 10

\* psbt.addOutput of signAndBroadcast: the single call, on tx.outs[0].  A raw
\* transaction without outputs makes tx.outs[0].script throw.
PsbtOutputs(outs) ==
    IF Len(outs) = 0 \/ outs[1] = 0 THEN [res |-> "throw", outs |-> << >>]
    ELSE [res |-> "built", outs |-> <<ScriptOfAddress(AddressOfScript(outs[1]))>>]

\* The networks an address may belong to, and what is no address at all.
AddressKinds == {"testnet", "mainnet", "garbage"}

\* toOutputScript that tries the main network when the test network fails.
DecodeAddressAnyNetwork(a) ==
    IF a \in {"testnet", "mainnet"} THEN "decoded" ELSE "invalidAddress"

\* bitcoin.address.toOutputScript(address, networks.testnet) inside its try:
\* any failure is rethrown as 'Invalid address for Testnet'.
DecodeAddress(a) == IF a = "testnet" THEN "decoded" ELSE "invalidAddress"

SignOps == {"signAndBroadcast", "historySign"}
SignEarlyExits == {"alertNoTx", "alertNoAddr"}

\* signAndBroadcast marking the contract settled as soon as it starts.
SignInvokeOptimistic(c) ==
    IF c.tx_hex = NoTx THEN [res |-> "alertNoTx", value |-> Undefined, n |-> 0, cc |-> c]
    ELSE IF c.address = NoAddr
    THEN [res |-> "alertNoAddr", value |-> Undefined, n |-> 0, cc |-> c]
    ELSE [res |-> "throwValue", value |-> NaN, n |-> 2,
          cc |-> [c EXCEPT !.status = "SETTLED_WIN"]]

\* signAndBroadcast without its two guards and with a UTXO value that never
\* throws: every call reaches signPsbt.
SignInvokeUnguarded(c) ==
    [res |-> "request", value |-> 2 * DefaultAmount, n |-> 1, cc |-> c]

\* signAndBroadcast from its call to its first await or to its end, for the
\* currentContract c it is called on: the two alerts, the log entry, the parse
\* of tx_hex, then  value = BigInt(currentContract.amount * 2)  and the PSBT.
\* res: where it stopped ("request": signPsbt was called); value: the UTXO value
\* (NaN when BigInt threw); n: log entries; cc: currentContract afterwards.
SignInvoke(c) ==
    IF c.tx_hex = NoTx THEN [res |-> "alertNoTx", value |-> Undefined, n |-> 0, cc |-> c]
    ELSE IF c.address = NoAddr
    THEN [res |-> "alertNoAddr", value |-> Undefined, n |-> 0, cc |-> c]
    ELSE LET v == JsTimes2(c.amount) IN
         IF BigIntThrows(v)
         THEN [res |-> "throwValue", value |-> v, n |-> 2, cc |-> c]
         ELSE [res |-> "request", value |-> v, n |-> 1, cc |-> c]

\* The effect of a call of signAndBroadcast on contract state c.
SignStart(c, op, item) ==
    LET r == SignInvoke(c) IN
    /\ currentContract' = r.cc
    /\ sign' = IF r.res = "request" THEN [pc |-> "awaitSign", wit |-> c.tx_hex.wit]
               ELSE sign
    /\ last' = [Step(op, r.n) EXCEPT !.res = r.res, !.value = r.value, !.c = item]

\* signAndBroadcast after pushTx, on currentContract as it is by then: the txid
\* is logged and  currentContract.status = 'SETTLED_WIN'  is assigned, or the
\* failure is logged.
AfterPushTx(c, ok) == IF ok THEN [c EXCEPT !.status = "SETTLED_WIN"] ELSE c

\* After signPsbt: the wallet refuses, returns a PSBT without tapScriptSig, or a
\* signature, which goes into the placeholder; then pushTx is called.
\* After pushTx: the status becomes SETTLED_WIN, or the failure is logged.
SignResume ==
    IF sign.pc = "awaitSign"
    THEN /\ \E a \in WalletAnswers :
              LET r == AfterSignPsbt(sign.wit, a) IN
              /\ sign' = IF r.push = 1 THEN [pc |-> "awaitPush", wit |-> r.wit]
                         ELSE [pc |-> "idle", wit |-> << >>]
              /\ last' = [Step("signPsbtReturn", 1) EXCEPT !.res = r.res]
         /\ UNCHANGED currentContract
    ELSE /\ sign' = [pc |-> "idle", wit |-> << >>]
         /\ \E ok \in BOOLEAN :
              /\ currentContract' = AfterPushTx(currentContract, ok)
              /\ last' = [Step("pushTxReturn", 1)
                            EXCEPT !.res = IF ok THEN "pushOk" ELSE "pushFail"]

\* The "Sign & Broadcast" button, rendered only while the status is
\* WAITING_USER_SIG or WAITING_USER_SIG_REFUND, and the continuations of the
\* call it starts.  One call is followed at a time.
SignAndBroadcast ==
    /\ IF sign.pc = "idle"
       THEN /\ currentContract.status \in WaitingStatuses
            /\ SignStart(currentContract, "signAndBroadcast", NoItem)
       ELSE SignResume
    /\ UNCHANGED <<claim, probe, installed, wallet, currentProvider, userContracts, flow,
                   issued, deposited, conc>>

\* The assignments of the history entry's button.
SelectContract(c, item) ==
    [c EXCEPT !.id = item.id, !.tx_hex = item.tx_hex, !.status = item.status]

\* The button of a history entry in status WAITING_USER_SIG: it makes the entry
\* the current contract and calls signAndBroadcast.
HistorySign(i) ==
    /\ wallet.connected
    /\ i \in 1..Len(userContracts)
    /\ userContracts[i].status = "WAITING_USER_SIG"
    /\ sign.pc = "idle"
    /\ SignStart(SelectContract(currentContract, userContracts[i]), "historySign",
                 userContracts[i])
    /\ UNCHANGED <<claim, probe, installed, wallet, currentProvider, userContracts, flow,
                   issued, deposited, conc>>

\* ----------------------------------------------------------------- claimAll
\* A record of data.psbt_inputs: its index, and whether it carries tapLeafScript
\* and oracleSig.  The index may lie outside the unsigned transaction.
MetadataRecords == [index : 0..MaxIns, leaf : BOOLEAN, oracle : BOOLEAN]
MetadataLists == UNION {[1..n -> MetadataRecords] : n \in 0..MaxIns}

\* The loop body that attaches the oracle signature to the input it has just
\* added, whatever index the record names.
AddRecordByPosition(psbt, rec, nIns, strict) ==
    LET i == rec.index
        added == Append(psbt, [txin |-> i, sig |-> FALSE]) IN
    IF i >= nIns THEN [err |-> "noTxInput", psbt |-> psbt]
    ELSE IF ~rec.leaf THEN [err |-> "noLeafScript", psbt |-> psbt]
    ELSE IF strict /\ \E j \in 1..Len(psbt) : psbt[j].sig
    THEN [err |-> "signaturesExist", psbt |-> psbt]
    ELSE IF \E j \in 1..Len(psbt) : psbt[j].txin = i
    THEN [err |-> "duplicateInput", psbt |-> psbt]
    ELSE IF ~rec.oracle THEN [err |-> "noOracleSig", psbt |-> added]
    ELSE [err |-> "", psbt |-> [added EXCEPT ![Len(added)].sig = TRUE]]

\* One turn of the loop over data.psbt_inputs, on the PSBT built so far (its
\* inputs in order: the input of the unsigned transaction each spends, and
\* whether a tapScriptSig is attached).  i = inputData.index;
\* psbt.addInput({hash: tx.ins[i].hash, ..., tapLeafScript: ...}) throws a
\* TypeError when tx.ins[i] or inputData.tapLeafScript is undefined, and the
\* library refuses an input already in the PSBT; psbt.updateInput(i, {tapScriptSig})
\* throws when oracleSig is undefined, when the PSBT has no input i, or when
\* input i has the signature already.  strict: the library build also refuses
\* addInput / addOutput once a signature without ANYONECANPAY is attached.
AddRecord(psbt, rec, nIns, strict) ==
    LET i == rec.index
        added == Append(psbt, [txin |-> i, sig |-> FALSE]) IN
    IF i >= nIns THEN [err |-> "noTxInput", psbt |-> psbt]
    ELSE IF ~rec.leaf THEN [err |-> "noLeafScript", psbt |-> psbt]
    ELSE IF strict /\ \E j \in 1..Len(psbt) : psbt[j].sig
    THEN [err |-> "signaturesExist", psbt |-> psbt]
    ELSE IF \E j \in 1..Len(psbt) : psbt[j].txin = i
    THEN [err |-> "duplicateInput", psbt |-> psbt]
    ELSE IF ~rec.oracle THEN [err |-> "noOracleSig", psbt |-> added]
    ELSE IF i + 1 > Len(added) THEN [err |-> "noInput", psbt |-> added]
    ELSE IF added[i + 1].sig THEN [err |-> "duplicateData", psbt |-> added]
    ELSE [err |-> "", psbt |-> [added EXCEPT ![i + 1].sig = TRUE]]

\* The loop over data.psbt_inputs from record k on.
RECURSIVE AddRecords(_, _, _, _, _)
AddRecords(psbt, recs, k, nIns, strict) ==
    IF k > Len(recs) THEN [err |-> "", psbt |-> psbt]
    ELSE LET r == AddRecord(psbt, recs[k], nIns, strict) IN
         IF r.err # "" THEN r ELSE AddRecords(r.psbt, recs, k + 1, nIns, strict)

\* The PSBT of claimAll: the inputs, then tx.outs.forEach(addOutput), which a
\* strict library build refuses when a signature is attached.
BuildBatch(nIns, recs, strict) ==
    LET r == AddRecords(<< >>, recs, 1, nIns, strict) IN
    IF r.err = "" /\ strict /\ \E j \in 1..Len(r.psbt) : r.psbt[j].sig
    THEN [err |-> "signaturesExist", psbt |-> r.psbt]
    ELSE r

\* Finalization that keeps going when an input cannot be finalized.
FinalizeAllInputsLenient(n, fin) == TRUE

\* signedPsbt.finalizeAllInputs() on a PSBT of n inputs of which those in fin
\* can be finalized: it throws unless there is an input and every input can.
FinalizeAllInputs(n, fin) == n >= 1 /\ fin = 1..n

\* A claimAll invocation: nIns, recs: the backend's answer; psbt: the PSBT
\* built; fin: the inputs that could be finalized; asked / pushed: calls of
\* signPsbt / pushTx; n: log entries of the last step.
ClaimAt(pc, res, n) == [NoClaim EXCEPT !.pc = pc, !.res = res, !.n = n]

KeepPage ==
    UNCHANGED <<probe, installed, wallet, currentProvider, currentContract,
                userContracts, flow, sign, issued, deposited, conc, last>>

\* The wallet object claimAll addresses for signPsbt and pushTx: window.unisat,
\* written out in the code (signAndBroadcast does the same).
ClaimSigner == "unisat"

\* The "Claim All" button of the history card (shown once the wallet is
\* connected): nothing without wallet.publicKey, else a log entry and the
\* claim_all request.
ClaimAll ==
    /\ wallet.connected
    /\ wallet.publicKey
    /\ claim.pc \in {"idle", "done"}
    /\ claim' = ClaimAt("awaitClaim", "", 1)
    /\ KeepPage

\* The answer of POST /claim_all: the request fails, the backend reports an
\* error, the transaction hex is empty, or the PSBT is built from the answer and
\* handed to window.unisat.signPsbt (a TypeError when UniSat is not installed).
ClaimAnswer ==
    /\ claim.pc = "awaitClaim"
    /\ \/ \E res \in {"throw", "error"} : claim' = ClaimAt("done", res, 1)
       \/ claim' = ClaimAt("done", "emptyHex", 2)
       \/ \E nIns \in 1..MaxIns, recs \in MetadataLists, strict \in BOOLEAN :
             LET b == BuildBatch(nIns, recs, strict)
                 got == [ClaimAt("done", b.err, 2) EXCEPT !.nIns = nIns, !.recs = recs,
                                                          !.psbt = b.psbt] IN
             claim' = IF b.err # "" THEN got
                      ELSE IF ClaimSigner \notin installed
                      THEN [got EXCEPT !.res = "noUnisat", !.agent = ClaimSigner, !.n = 3]
                      ELSE [got EXCEPT !.pc = "awaitClaimSign", !.res = "request",
                                       !.agent = ClaimSigner, !.asked = 1]
    /\ KeepPage

\* The answer of signPsbt: the wallet refuses, or returns a PSBT of which the
\* inputs in fin can be finalized; finalizeAllInputs, extractTransaction, then
\* pushTx.
ClaimSignReturn ==
    /\ claim.pc = "awaitClaimSign"
    /\ \/ claim' = [claim EXCEPT !.pc = "done", !.res = "agentRefuse", !.n = 1]
       \/ \E fin \in SUBSET (1..Len(claim.psbt)) :
             claim' = IF FinalizeAllInputs(Len(claim.psbt), fin)
                      THEN [claim EXCEPT !.pc = "awaitClaimPush", !.res = "pushing",
                                         !.fin = fin, !.pushed = 1, !.n = 1]
                      ELSE [claim EXCEPT !.pc = "done", !.res = "finalizeFail",
                                         !.fin = fin, !.n = 1]
    /\ KeepPage

\* The answer of pushTx: the txid is logged, or the failure.
ClaimPushReturn ==
    /\ claim.pc = "awaitClaimPush"
    /\ \E ok \in BOOLEAN :
         claim' = [claim EXCEPT !.pc = "done", !.n = 1,
                                !.res = IF ok THEN "pushOk" ELSE "pushFail"]
    /\ KeepPage

\* ------------------------------------------------------------ specification
Next ==
    \/ WsMessage
    \/ WsError
    \/ ConnectWallet
    \/ FetchUserContracts
    \/ \E f \in Flows : CreateAndDeposit(f)
    \/ \E f \in Flows : CreateReturn(f)
    \/ \E f \in Flows : DepositReturn(f)
    \/ \E f \in Flows : CancelReturn(f)
    \/ \E f \in Flows : TimerFire(f)
    \/ \E f \in Flows : MatchReturn(f)
    \/ SignAndBroadcast
    \/ \E i \in 1..1 : HistorySign(i)

Spec == Init /\ [][Next]_vars

\* The handlers that send a backend request and only log its outcome, next to
\* the operations that decide whether they are enabled (the wallet connection,
\* the create flow) and the push channel's error handler.  They change nothing
\* another handler reads, so they are followed apart from Spec.
NextRequests ==
    \/ ConnectWallet
    \/ WsError
    \/ FetchStats
    \/ MatchContract
    \/ SettleAllContracts
    \/ RefundContract
    \/ CheckStatus
    \/ \E f \in Flows : CreateAndDeposit(f)
    \/ \E f \in Flows : CreateReturn(f)
    \/ \E f \in Flows : DepositReturn(f)
    \/ \E f \in Flows : CancelReturn(f)
    \/ \E f \in Flows : TimerFire(f)
    \/ \E f \in Flows : MatchReturn(f)

SpecRequests == Init /\ [][NextRequests]_vars

\* claimAll, next to the wallet connection that enables it.  It assigns no
\* reactive state but the log, so it is followed apart from Spec.
NextClaimAll ==
    \/ ConnectWallet
    \/ ClaimAll
    \/ ClaimAnswer
    \/ ClaimSignReturn
    \/ ClaimPushReturn

SpecClaimAll == Init /\ [][NextClaimAll]_vars

\* ------------------------------------------- the steps of signAndBroadcast
\* The steps of signAndBroadcast behind  BigInt(currentContract.amount * 2),
\* each applied on its own to the inputs it reads: the witness stack of
\* tx.ins[0] with the wallet's answer, the outputs of the raw transaction, the
\* contract address.
WitnessStacks == UNION {[1..n -> {0, 1}] : n \in 0..MaxWit}
OutputLists == UNION {[1..n -> 0..2] : n \in 0..MaxOuts}

Probe(kind) == [NoProbe EXCEPT !.kind = kind]

\* What currentContract may hold when pushTx answers: the contract whose
\* transaction was signed or another one, in any status a push event or a
\* selection from the history can have given it meanwhile.
ContractsAtReturn ==
    [id : Ids, status : WaitingStatuses \cup SettleResults \cup {"MATCHED", "CREATED"}]

ProbeInputs ==
    {[Probe("witness") EXCEPT !.w = w, !.a = a] : w \in WitnessStacks, a \in WalletAnswers}
      \cup {[Probe("push") EXCEPT !.signed = id, !.c = c, !.a = a] :
               id \in Ids, c \in ContractsAtReturn, a \in {"ok", "throw"}}
      \cup {[Probe("outs") EXCEPT !.outs = o] : o \in OutputLists}
      \cup {[Probe("addr") EXCEPT !.addr = k] : k \in AddressKinds}

InitSignParts ==
    /\ AppInit
    /\ claim = NoClaim
    /\ probe \in ProbeInputs

KeepApp ==
    UNCHANGED <<claim, installed, wallet, currentProvider, currentContract,
                userContracts, flow, sign, issued, deposited, conc, last>>

\* Lines 767-794 on a witness stack and an answer of the wallet.
SignPsbtReturns ==
    /\ probe.kind = "witness" /\ ~probe.done
    /\ LET r == AfterSignPsbt(probe.w, probe.a) IN
       probe' = [probe EXCEPT !.done = TRUE, !.res = r.res, !.out = r.wit,
                              !.push = r.push]
    /\ KeepApp

\* Lines 757-760 on the outputs of the raw transaction.
AddOutput ==
    /\ probe.kind = "outs" /\ ~probe.done
    /\ LET r == PsbtOutputs(probe.outs) IN
       probe' = [probe EXCEPT !.done = TRUE, !.res = r.res, !.out = r.outs]
    /\ KeepApp

\* Lines 734-740 on the contract address; signPsbt is not reached when the
\* decoding throws.
ToOutputScript ==
    /\ probe.kind = "addr" /\ ~probe.done
    /\ probe' = [probe EXCEPT !.done = TRUE, !.res = DecodeAddress(probe.addr)]
    /\ KeepApp

\* Lines 794-797 on currentContract as it is when pushTx answers.
PushTxReturns ==
    /\ probe.kind = "push" /\ ~probe.done
    /\ probe' = [probe EXCEPT !.done = TRUE, !.cc = AfterPushTx(probe.c, probe.a = "ok"),
                              !.res = IF probe.a = "ok" THEN "pushOk" ELSE "pushFail"]
    /\ KeepApp

NextSignParts == SignPsbtReturns \/ AddOutput \/ ToOutputScript \/ PushTxReturns

SpecSignParts == InitSignParts /\ [][NextSignParts]_vars

\* =================================================================== claims
\* currentContract as signAndBroadcast finds it in the step just taken: the
\* history button assigns id, tx_hex and status before it calls.
AtCall(c, step) == IF step.op = "historySign" THEN SelectContract(c, step.c) ELSE c

\* C1: with createAndDeposit calls run strictly one after another, no
\* cancel_contract request names a contract whose deposit was broadcast.
C1_NoCancelOfDeposited ==
    [][(conc' = 0 /\ last'.op \in {"createReturn", "depositReturn"} /\ last'.sent # Null)
          => last'.sent \notin deposited]_vars

\* C2: when the deposit send throws in a flow that obtained contract id X (and
\* X is still the tracked id), a cancel_contract request carrying X is sent, and
\* when that request is over id is null and address and status are empty.
C2_DepositThrowCancelsAndClears ==
    /\ [][\A f \in Flows :
            (flow[f].pc = "awaitDeposit" /\ currentContract.id = flow[f].got
               /\ last'.op = "depositReturn" /\ last'.f = f /\ last'.res = "throw")
            => (last'.sent = flow[f].got /\ flow'[f].pc = "awaitCancel")]_vars
    /\ [][last'.op = "cancelReturn"
            => (currentContract'.id = Null /\ currentContract'.address = NoAddr
                  /\ currentContract'.status = "")]_vars

\* C3: a push event never moves the tracked contract out of WAITING_USER_SIG /
\* WAITING_USER_SIG_REFUND.
C3_EventsKeepWaiting ==
    [][(currentContract.status \in WaitingStatuses /\ last'.op = "ws")
          => currentContract'.status \in WaitingStatuses]_vars

\* C4: an event whose contract_id is not the tracked id, or that arrives while
\* no contract is tracked, leaves id, address, status and tx_hex as they were
\* and adds exactly one log entry.
C4_UntrackedEventFrame ==
    [][(last'.op = "ws" /\ ~last'.hit)
          => (CCF(currentContract') = CCF(currentContract) /\ last'.n = 1)]_vars

\* An event for another contract was delivered while a contract was tracked.
C4_Witness ==
    /\ last.op = "ws" /\ ~last.hit
    /\ currentContract.id # Null /\ currentContract.status # ""

\* C5: delivering the same event for the tracked contract a second time in a
\* row leaves id, address, status and tx_hex as the first delivery left them.
C5_RepeatedEventIdempotent ==
    [][(last.op = "ws" /\ last.hit /\ last'.op = "ws" /\ last'.hit /\ last'.ev = last.ev)
          => CCF(currentContract') = CCF(currentContract)]_vars

\* The same MATCHED event was delivered twice in a row for the tracked contract.
C5_Witness ==
    /\ last.op = "ws" /\ last.hit /\ last.rep
    /\ last.ev.type = "MATCHED" /\ Truthy(currentContract.id)
    /\ currentContract.status = "MATCHED"

\* C6: a step of signAndBroadcast changes id, address, status and tx_hex only
\* when pushTx has returned, and then only the status, to SETTLED_WIN; a call
\* that fails leaves the four fields as it found them.
C6_SignFailureLeavesState ==
    [][(last'.op \in SignOps \cup {"signPsbtReturn", "pushTxReturn"})
          => LET before == AtCall(currentContract, last') IN
             IF last'.res = "pushOk"
             THEN currentContract' = [before EXCEPT !.status = "SETTLED_WIN"]
             ELSE CCF(currentContract') = CCF(before)]_vars

\* A call on a contract awaiting the user's signature has failed.
C6_Witness ==
    /\ last.op = "signAndBroadcast" /\ last.res = "throwValue"
    /\ currentContract.status = "WAITING_USER_SIG"
    /\ currentContract.tx_hex # NoTx

\* C7: signAndBroadcast on a contract of the create flow in WAITING_USER_SIG,
\* with a well-formed pending transaction whose first slot is empty, ends in
\* SETTLED_WIN unless the wallet refused, returned no signature or the
\* broadcast failed.
C7_SignEndsSettled ==
    (/\ last.op \in {"signAndBroadcast", "signPsbtReturn", "pushTxReturn"}
     /\ sign.pc = "idle"
     /\ currentContract.id \in issued
     /\ currentContract.address = AddrOf(currentContract.id)
     /\ currentContract.tx_hex = TxOf(currentContract.id, WitOpen)
     /\ currentContract.status # "WAITING_USER_SIG_REFUND"
     /\ last.res \notin {"agentRefuse", "noSignature", "pushFail"})
    => currentContract.status = "SETTLED_WIN"

\* The principal of the contract a call of signAndBroadcast is about: the
\* amount of the history entry, or the amount createAndDeposit sent.
Principal(step) == IF step.op = "historySign" THEN step.c.amount ELSE DefaultAmount

\* C8: whenever signAndBroadcast gets past its two guards, the UTXO value it
\* computes for the PSBT is twice the principal of the tracked contract.
C8_ValueIsTwicePrincipal ==
    (last.op \in SignOps /\ last.res \notin SignEarlyExits)
    => last.value = 2 * Principal(last)

C10_TimerMatchesOwnContract ==
    [][\A f \in Flows :
          (flow[f].pc = "timer" /\ Truthy(flow[f].got) /\ currentContract.id # 0
             /\ conc' <= 1 /\ last'.op = "timerFire" /\ last'.f = f)
          => last'.sent = flow[f].got]_vars

\* C17: when the cancel_contract request of the catch block fails, the failure
\* is logged and id, address and status are cleared just as after a request
\* that succeeded.
C17_CancelFailureStillClears ==
    [][(last'.op = "cancelReturn" /\ last'.res = "throw")
          => (/\ currentContract' = ClearContract(currentContract)
              /\ currentContract'.id = Null
              /\ currentContract'.address = NoAddr
              /\ currentContract'.status = ""
              /\ last'.n >= 1)]_vars

\* A cancel_contract request has failed and the contract is cleared.
C17_Witness ==
    /\ last.op = "cancelReturn" /\ last.res = "throw" /\ last.f \in Flows
    /\ currentContract.id = Null /\ currentContract.address = NoAddr

\* The outcomes in which a backend call, a wallet call or the push channel failed.
FailureResults ==
    {"throw", "reject", "throwValue", "agentRefuse", "noSignature", "pushFail"}

\* C19: a step in which a backend call, a wallet call or the push channel
\* failed has put at least one entry on the log.
C19_FailuresAreLogged ==
    last.res \in FailureResults => last.n >= 1

\* The slots of witness stack w the placeholder loop scans and finds empty, and
\* the slots in which stack v differs from w.
OpenSlots(w) == {i \in 1..Len(w) : i <= Len(w) - 2 /\ w[i] = 0}
ChangedSlots(w, v) == {i \in 1..Len(w) : v[i] # w[i]}

\* C13: the signature goes into the lowest-index zero-length element among the
\* elements ahead of the last two; when none of them is zero-length the
\* operation stops with "no placeholder" and writes nothing.
C13_PlaceholderIsLowestEmpty ==
    (probe.kind = "witness" /\ probe.done /\ probe.a = "sig")
    => IF OpenSlots(probe.w) = {}
       THEN probe.res = "noPlaceholder" /\ probe.out = probe.w
       ELSE /\ probe.res = "pushing"
            /\ \E i \in OpenSlots(probe.w) :
                   /\ probe.out[i] = UserSig
                   /\ \A j \in OpenSlots(probe.w) : i <= j
                   /\ \A j \in 1..Len(probe.w) : probe.out[j] = UserSig => j = i

\* The second slot was the first empty one of a stack whose last element is
\* empty too: it got the signature.
C13_Witness ==
    /\ probe.kind = "witness" /\ probe.done /\ probe.a = "sig"
    /\ probe.w = <<1, 0, 0, 1, 0>>
    /\ probe.out = <<1, UserSig, 0, 1, 0>>

\* C14: the transaction handed to pushTx differs from the pending one in exactly
\* one witness element, which is neither the leaf script (second to last) nor
\* the control block (last).
C14_InsertionChangesOneSlot ==
    (probe.kind = "witness" /\ probe.done /\ probe.push = 1)
    => /\ Len(probe.out) = Len(probe.w)
       /\ Cardinality(ChangedSlots(probe.w, probe.out)) = 1
       /\ \A i \in ChangedSlots(probe.w, probe.out) : i <= Len(probe.w) - 2

\* A stack with two empty slots ahead of script and control block was signed.
C14_Witness ==
    /\ probe.kind = "witness" /\ probe.done /\ probe.push = 1
    /\ probe.w = <<0, 0, 1, 1>>

C20_PushOnlyAfterSignatureInserted ==
    (probe.kind = "witness" /\ probe.done)
    => /\ probe.push <= 1
       /\ probe.push = 1 => (/\ probe.a = "sig"
                             /\ \E i \in OpenSlots(probe.w) : probe.out[i] = UserSig)
       /\ probe.a = "nosig" => probe.push = 0
       /\ OpenSlots(probe.w) = {} => probe.push = 0

\* The wallet returned no signature for a stack that had a placeholder: nothing
\* was pushed.
C20_Witness ==
    /\ probe.kind = "witness" /\ probe.done /\ probe.a = "nosig"
    /\ probe.w = <<0, 1, 1, 1>>
    /\ probe.push = 0 /\ probe.res = "noSignature"

\* C11: claimAll calls pushTx only when every record of the batch carried its
\* leaf script and oracle signature, got its input in the PSBT and that input
\* was finalized.
C11_NoPushUnlessAllFinalized ==
    claim.pushed >= 1
    => /\ claim.pushed = 1
       /\ Len(claim.psbt) = Len(claim.recs)
       /\ \A k \in 1..Len(claim.recs) : claim.recs[k].leaf /\ claim.recs[k].oracle
       /\ \A j \in 1..Len(claim.psbt) : claim.psbt[j].sig /\ j \in claim.fin

\* Two claimable contracts, the second record without its leaf script: the
\* operation is over, and neither signPsbt nor pushTx was called.
C11_Witness ==
    /\ claim.pc = "done" /\ claim.res = "noLeafScript"
    /\ claim.nIns = 2 /\ Len(claim.recs) = 2
    /\ claim.recs[1] = [index |-> 0, leaf |-> TRUE, oracle |-> TRUE]
    /\ claim.recs[2] = [index |-> 1, leaf |-> FALSE, oracle |-> TRUE]
    /\ claim.asked = 0 /\ claim.pushed = 0

\* C12: when claimAll calls signPsbt the PSBT has one input per metadata record,
\* and every record's index is its position in the list: input k spends input
\* k of the unsigned transaction and carries the oracle signature of record k.
C12_IndexMismatchStopsConstruction ==
    claim.asked >= 1
    => /\ Len(claim.psbt) = Len(claim.recs)
       /\ \A k \in 1..Len(claim.recs) :
             /\ claim.recs[k].index = k - 1
             /\ claim.psbt[k].txin = k - 1
             /\ claim.psbt[k].sig

\* Two complete records in the wrong order: construction stopped, signPsbt was
\* not called.
C12_Witness ==
    /\ claim.pc = "done" /\ claim.asked = 0 /\ claim.nIns = 2
    /\ claim.recs = <<[index |-> 1, leaf |-> TRUE, oracle |-> TRUE],
                      [index |-> 0, leaf |-> TRUE, oracle |-> TRUE]>>
    /\ claim.res = "noInput"

\* C21: a createAndDeposit call that obtained a contract id ends only behind
\* its match request or behind its cancel request and the clearing of the
\* contract: it is never over with neither of them done.
C21_FlowEndsMatchedOrCleaned ==
    [][\A f \in Flows :
          (flow[f].got # Null /\ flow[f].pc # "done" /\ flow'[f].pc = "done")
          => flow[f].pc \in {"awaitMatch", "awaitCancel"}]_vars

\* C23: the cancel_contract request and the automatic match request of a
\* createAndDeposit call carry the contract id create_contract answered that
\* very call.
C23_RequestsCarryOwnId ==
    [][\A f \in Flows :
          (last'.op \in {"createReturn", "depositReturn", "timerFire"} /\ last'.f = f
             /\ last'.sent # Null)
          => last'.sent = flow[f].got]_vars

\* C25: a pending transaction held in currentContract.tx_hex is a transaction
\* of the contract currentContract.id names; without a tracked contract tx_hex
\* is empty.
C25_TxHexBelongsToTracked ==
    currentContract.tx_hex # NoTx => currentContract.tx_hex.cid = currentContract.id

RequestOps == {"matchContract", "refundContract", "settleAllContracts", "checkStatus"}

\* C22: matchContract, refundContract, settleAllContracts and checkStatus
\* leave currentContract's id, address, status and tx_hex as they were whatever
\* the backend answers, and the first, second and fourth send no request (and
\* log nothing) while no contract is tracked.
C22_RequestsLeaveContractAlone ==
    [][last'.op \in RequestOps
         => /\ CCF(currentContract') = CCF(currentContract)
            /\ (last'.op # "settleAllContracts" /\ currentContract.id = Null)
                  => (last'.res = "noRequest" /\ last'.n = 0)]_vars

C22_Witness ==
    /\ last.op = "refundContract" /\ last.res = "ok" /\ last.sent = currentContract.id
    /\ currentContract.status = "CREATED"

\* C26: when claimAll comes to its signing step, the request goes to the
\* signing agent of the wallet session, the provider connectWallet stored.
C26_SigningGoesToSessionAgent ==
    claim.res \in {"request", "noUnisat"}
    => (claim.agent = currentProvider /\ claim.asked = 1)

====
